---- MODULE Spec2Model ----
(***************************************************************************)
(* The lead-submission relay pipeline of b-tour-v2.                        *)
(*                                                                         *)
(* The repository holds two versions of the intake service:                *)
(*   src/index.js          POST /formnew/submit                            *)
(*   src/unnamed/part_000  POST /submit         (lines 32-189)             *)
(* Both listen on the same port, so one of them runs at a time: `version`  *)
(* is chosen once.  Each submission is one async handler; an action is the *)
(* code that runs between two awaits.  fs.appendFile is not awaited, so a  *)
(* log write is a request that completes (or fails) later on its own.      *)
(***************************************************************************)
EXTENDS Naturals, Sequences, FiniteSets

\* Number of submissions the model accepts.
MaxSubs == 2

\* Number of failures the environment produces in one run: a failed relay,
\* a failed log write, an exception in the background task.
MaxFaults == 1

Subs == 1..MaxSubs

Versions == {"index.js", "part_000"}

\* payload.source as the client sends it; NoSource is an absent field.
NoSource == "<absent>"
Sources == {NoSource, "Form", "whatsapp", "WhatsApp", "other"}

\* A log line that carries no `source` key / no `payload` key.
NotLogged == "<none>"
NoPayload == [lead |-> 0, source |-> NotLogged]

GENERAL_LOG == "submission.log"
WHATSAPP_LOG == "whatsapp.log"
SHEET_FAIL_LOG == "sheet_fail.log"
ROCKETOUR_LOG == "rockettour.log"
LogFiles == {GENERAL_LOG, WHATSAPP_LOG, SHEET_FAIL_LOG, ROCKETOUR_LOG}

NoAck == [status |-> 0, ok |-> FALSE]

VARIABLES
    version,   \* which of the two services is running
    pc,        \* pc[s]: where submission s's handler / background task stands
    payload,   \* payload[s]: req.body of submission s
    relay,     \* relay[s]: state of the fetch(SHEET_URL) call
    ack,       \* ack[s]: the response sent to the caller
    browser,   \* browser[s]: the puppeteer session of s's background task
    trace,     \* trace[s]: the statements s has executed, in program order
    pending,   \* fs.appendFile requests issued and not yet completed
    files,     \* files[f]: the lines of log file f, in the order written
    diag,      \* lines whose write failed: console.error("Log write failed")
    faults,    \* failures the environment has produced so far
    budget,    \* failures the environment may produce in this run
    fill       \* the field-by-field view of the form filling (FillSpec)

vars == <<version, pc, payload, relay, ack, browser, trace, pending, files, diag, faults,
          budget, fill>>

----------------------------------------------------------------------------
(* String.prototype.toLowerCase on the strings the model uses. *)
ToLower(str) ==
    CASE str = "Form" -> "form"
      [] str = "WhatsApp" -> "whatsapp"
      [] OTHER -> str

Range(seq) == {seq[i] : i \in 1..Len(seq)}

(* Every line submission s has handed to fs.appendFile so far. *)
Written == UNION {Range(files[f]) : f \in LogFiles}
Issued(pend, s) == {l \in pend \cup Written \cup diag : l.of = s}

(* index.js:59 / part_000:88 -- the handler's `source` constant. *)
ResolveSource(v, raw) ==
    IF v = "index.js"
    THEN ToLower(IF raw = NoSource THEN "form" ELSE raw)
    ELSE IF raw = NoSource THEN "Form" ELSE raw

(* A case-sensitive comparison in place of the lower-cased one. *)
IsWhatsAppExact(v, source) == source = "whatsapp"

(* index.js:65 / part_000:94 -- the test guarding the WhatsApp log. *)
IsWhatsApp(v, source) ==
    IF v = "index.js" THEN source = "whatsapp" ELSE ToLower(source) = "whatsapp"

(* index.js:91,161 (the IIFE is invoked unconditionally) / part_000:124. *)
Replicates(v, source) ==
    IF v = "index.js" THEN TRUE ELSE ToLower(source) = "form"

(* index.js:69-73 passes no `timeout` to node-fetch (its default, 0, is no
   timeout); part_000:104 passes timeout: 15000. *)
HasRelayTimeout(v) == v = "part_000"

Source(s) == ResolveSource(version, payload[s].source)

(* appendJsonLine / append: one line is serialised and handed to
   fs.appendFile; the call returns at once.  `of` and `n` stand for the
   line's `ts`: they tell the lines of the log apart. *)
appendJsonLine(pend, filePath, s, obj) ==
    pend \cup {[file |-> filePath, of |-> s, n |-> Cardinality(Issued(pend, s)) + 1,
                source |-> obj.source, key |-> obj.key, value |-> obj.value,
                payload |-> obj.payload]}

(* The general entry with the payload rewritten to the resolved source. *)
GeneralEntryNormalised(source, p) ==
    [source |-> source, key |-> "none", value |-> "",
     payload |-> [p EXCEPT !.source = source]]

(* A relay-failure entry that leaves the payload out. *)
SheetFailEntryNoPayload(outcome, p) ==
    IF outcome = "nonok"
    THEN [source |-> NotLogged, key |-> "status", value |-> "500", payload |-> NoPayload]
    ELSE [source |-> NotLogged, key |-> "error", value |-> outcome, payload |-> NoPayload]

(* The objects the code passes to appendJsonLine. *)
GeneralEntry(source, p) ==
    [source |-> source, key |-> "none", value |-> "", payload |-> p]

WhatsAppEntry(p) ==
    [source |-> NotLogged, key |-> "none", value |-> "", payload |-> p]

SheetFailEntry(outcome, p) ==
    IF outcome = "nonok"
    THEN [source |-> NotLogged, key |-> "status", value |-> "500", payload |-> p]
    ELSE [source |-> NotLogged, key |-> "error", value |-> outcome, payload |-> p]

StatusEntry(status, p) ==
    [source |-> NotLogged, key |-> "status", value |-> status, payload |-> p]

ErrorEntry(msg, p) ==
    [source |-> NotLogged, key |-> "error", value |-> msg, payload |-> p]

(* A reply that passes the relay's failure on to the caller. *)
AcknowledgementOfRelay(outcome) ==
    IF outcome = "ok" THEN [status |-> 200, ok |-> TRUE]
    ELSE [status |-> 502, ok |-> FALSE]

(* res.status(200).json({ ok: true }) *)
Acknowledgement(outcome) == [status |-> 200, ok |-> TRUE]

----------------------------------------------------------------------------
\* No form filling is looked at field by field.
NoFill == [step |-> 0]

(* No request received, empty logs. *)
Pipeline0 ==
    /\ pc = [s \in Subs |-> "idle"]
    /\ payload = [s \in Subs |-> NoPayload]
    /\ relay = [s \in Subs |-> "none"]
    /\ ack = [s \in Subs |-> NoAck]
    /\ browser = [s \in Subs |-> "none"]
    /\ trace = [s \in Subs |-> <<>>]
    /\ pending = {}
    /\ files = [f \in LogFiles |-> <<>>]
    /\ diag = {}
    /\ faults = 0

Init ==
    /\ version \in Versions
    /\ Pipeline0
    /\ budget = MaxFaults
    /\ fill = NoFill

(* A handler that replies before it calls the store. *)
ReceiveReplyFirst(s) ==
    /\ pc[s] = "idle"
    /\ \A t \in Subs : t < s => pc[t] # "idle"
    /\ \E raw \in Sources :
        LET p == [lead |-> s, source |-> raw]
            source == ResolveSource(version, raw)
            wa == IsWhatsApp(version, source)
            p1 == appendJsonLine(pending, GENERAL_LOG, s, GeneralEntry(source, p))
            p2 == IF wa THEN appendJsonLine(p1, WHATSAPP_LOG, s, WhatsAppEntry(p)) ELSE p1
        IN /\ payload' = [payload EXCEPT ![s] = p]
           /\ pending' = p2
           /\ trace' = [trace EXCEPT ![s] =
                          <<"append_general">>
                          \o (IF wa THEN <<"append_whatsapp">> ELSE <<>>)
                          \o <<"reply", "relay_call">>]
    /\ ack' = [ack EXCEPT ![s] = Acknowledgement("ok")]
    /\ relay' = [relay EXCEPT ![s] = "inflight"]
    /\ pc' = [pc EXCEPT ![s] = "relay"]
    /\ UNCHANGED <<version, budget, fill, browser, files, diag, faults>>

(* The handler up to its first await: both log appends, then fetch(). *)
Receive(s) ==
    /\ pc[s] = "idle"
    /\ \A t \in Subs : t < s => pc[t] # "idle"
    /\ \E raw \in Sources :
        LET p == [lead |-> s, source |-> raw]
            source == ResolveSource(version, raw)
            wa == IsWhatsApp(version, source)
            p1 == appendJsonLine(pending, GENERAL_LOG, s, GeneralEntry(source, p))
            p2 == IF wa THEN appendJsonLine(p1, WHATSAPP_LOG, s, WhatsAppEntry(p)) ELSE p1
        IN /\ payload' = [payload EXCEPT ![s] = p]
           /\ pending' = p2
           /\ trace' = [trace EXCEPT ![s] =
                          <<"append_general">>
                          \o (IF wa THEN <<"append_whatsapp">> ELSE <<>>)
                          \o <<"relay_call">>]
    /\ relay' = [relay EXCEPT ![s] = "inflight"]
    /\ pc' = [pc EXCEPT ![s] = "relay"]
    /\ UNCHANGED <<version, budget, fill, ack, browser, files, diag, faults>>

(* A handler that posts to the store again after a failure. *)
AfterRelayRetry(s, outcome) ==
    LET failed == outcome # "ok"
        rep == Replicates(version, Source(s))
    IN /\ failed => faults < budget
       /\ faults' = IF failed THEN faults + 1 ELSE faults
       /\ relay' = [relay EXCEPT ![s] = IF failed THEN "inflight" ELSE outcome]
       /\ pending' = IF failed
                     THEN appendJsonLine(pending, SHEET_FAIL_LOG, s,
                                         SheetFailEntry(outcome, payload[s]))
                     ELSE pending
       /\ ack' = IF failed THEN ack ELSE [ack EXCEPT ![s] = Acknowledgement(outcome)]
       /\ pc' = [pc EXCEPT ![s] = IF failed THEN "relay" ELSE IF rep THEN "launch" ELSE "done"]
       /\ trace' = [trace EXCEPT ![s] =
                      IF failed
                      THEN @ \o <<"relay_result", "append_sheet_fail", "relay_call">>
                      ELSE @ \o <<"relay_result", "reply">>
                             \o (IF rep THEN <<"replication_start">> ELSE <<>>)]
       /\ UNCHANGED <<version, budget, fill, payload, browser, files, diag>>

(* The handler from the settled fetch to the end of its synchronous run:
   failure logging, the reply, and the start of the background task. *)
AfterRelay(s, outcome) ==
    LET failed == outcome # "ok"
        rep == Replicates(version, Source(s))
    IN /\ failed => faults < budget
       /\ faults' = IF failed THEN faults + 1 ELSE faults
       /\ relay' = [relay EXCEPT ![s] = outcome]
       /\ pending' = IF failed
                     THEN appendJsonLine(pending, SHEET_FAIL_LOG, s,
                                         SheetFailEntry(outcome, payload[s]))
                     ELSE pending
       /\ ack' = [ack EXCEPT ![s] = Acknowledgement(outcome)]
       /\ pc' = [pc EXCEPT ![s] = IF rep THEN "launch" ELSE "done"]
       /\ trace' = [trace EXCEPT ![s] =
                      @ \o <<"relay_result">>
                        \o (IF failed THEN <<"append_sheet_fail">> ELSE <<>>)
                        \o <<"reply">>
                        \o (IF rep THEN <<"replication_start">> ELSE <<>>)]
       /\ UNCHANGED <<version, budget, fill, payload, browser, files, diag>>

(* The store answers (2xx, non-2xx) or the transport throws. *)
RelaySettles(s) ==
    /\ pc[s] = "relay"
    /\ \E outcome \in {"ok", "nonok", "exception"} : AfterRelay(s, outcome)

(* node-fetch's timeout rejects the promise; only where one was asked for. *)
RelayTimeout(s) ==
    /\ pc[s] = "relay"
    /\ HasRelayTimeout(version)
    /\ AfterRelay(s, "timeout")

----------------------------------------------------------------------------
(* The background task (index.js:91-161, part_000:125-185). *)

(* What the catch block logs: index.js:158 adds the payload, part_000:183
   logs the message alone. *)
CatchEntry(v, msg, p) ==
    ErrorEntry(msg, IF v = "index.js" THEN p ELSE NoPayload)

(* A catch block that answers the caller with an error. *)
CatchReplies(s, msg, done) ==
    /\ faults < budget
    /\ faults' = faults + 1
    /\ pending' = appendJsonLine(pending, ROCKETOUR_LOG, s,
                                 CatchEntry(version, msg, payload[s]))
    /\ pc' = [pc EXCEPT ![s] = "done"]
    /\ trace' = [trace EXCEPT ![s] = @ \o done \o <<"catch", "reply">>]
    /\ UNCHANGED browser

(* catch (bgErr): one error line; the browser is not in scope here, so it
   is left as it is. *)
Catch(s, msg, done) ==
    /\ faults < budget
    /\ faults' = faults + 1
    /\ pending' = appendJsonLine(pending, ROCKETOUR_LOG, s,
                                 CatchEntry(version, msg, payload[s]))
    /\ pc' = [pc EXCEPT ![s] = "done"]
    /\ trace' = [trace EXCEPT ![s] = @ \o done \o <<"catch">>]
    /\ UNCHANGED browser

(* chromium.executablePath() and puppeteer.launch(). *)
Launch(s) ==
    /\ pc[s] = "launch"
    /\ \/ /\ browser' = [browser EXCEPT ![s] = "open"]
          /\ pc' = [pc EXCEPT ![s] = "nav"]
          /\ trace' = [trace EXCEPT ![s] = @ \o <<"launch">>]
          /\ UNCHANGED <<pending, faults>>
       \/ Catch(s, "launch_failed", <<>>)
    /\ UNCHANGED <<version, budget, fill, payload, relay, ack, files, diag>>

(* browser.newPage() and page.goto(ROCKETOUR_URL, timeout 30 s). *)
Navigate(s) ==
    /\ pc[s] = "nav"
    /\ \/ /\ pc' = [pc EXCEPT ![s] = "fill"]
          /\ trace' = [trace EXCEPT ![s] = @ \o <<"goto">>]
          /\ UNCHANGED <<pending, browser, faults>>
       \/ Catch(s, "navigation_failed", <<"goto">>)
    /\ UNCHANGED <<version, budget, fill, payload, relay, ack, files, diag>>

(* The field probes and fills, and the notes. *)
FillFields(s) ==
    /\ pc[s] = "fill"
    /\ \/ /\ pc' = [pc EXCEPT ![s] = "submit"]
          /\ trace' = [trace EXCEPT ![s] = @ \o <<"fill">>]
          /\ UNCHANGED <<pending, browser, faults>>
       \/ Catch(s, "fill_failed", <<>>)
    /\ UNCHANGED <<version, budget, fill, payload, relay, ack, files, diag>>

(* What the wait for the green box adds to the trace. *)
Waited(found, green) ==
    IF ~found THEN <<"no_submit_control">>
    ELSE <<"click", IF green THEN "green" ELSE "no_green">>

(* A wait that treats the elapsed bound as an error. *)
IndexOutcomeTimeoutIsError(found, green, p) ==
    IF ~found THEN ErrorEntry("no_submit_button_found", p)
    ELSE IF green THEN StatusEntry("success_detected", p)
    ELSE ErrorEntry("submitted_no_green_box", p)

(* index.js:138-154: the line logged for the branch taken. *)
IndexOutcome(found, green, p) ==
    IF ~found THEN ErrorEntry("no_submit_button_found", p)
    ELSE IF green THEN StatusEntry("success_detected", p)
    ELSE StatusEntry("submitted_no_green_box", p)

(* part_000:174-179: the line logged after the green-box probe. *)
Part000Outcome(green, p) ==
    IF green
    THEN StatusEntry("success", [lead |-> p.lead, source |-> NotLogged])
    ELSE StatusEntry("unknown_state_no_green_box", NoPayload)

(* index.js:137-154: probe for the submit control, click, wait up to 5 s
   for the green box, and log the one outcome of the branch taken. *)
SubmitIndex(s) ==
    /\ version = "index.js"
    /\ pc[s] = "submit"
    /\ \/ \E found \in BOOLEAN :
            \E green \in (IF found THEN BOOLEAN ELSE {FALSE}) :
              /\ pending' = appendJsonLine(pending, ROCKETOUR_LOG, s,
                                           IndexOutcome(found, green, payload[s]))
              /\ pc' = [pc EXCEPT ![s] = "close"]
              /\ trace' = [trace EXCEPT ![s] = @ \o Waited(found, green)]
              /\ UNCHANGED <<browser, faults>>
       \/ Catch(s, "click_failed", <<"click">>)
    /\ UNCHANGED <<version, budget, fill, payload, relay, ack, files, diag>>

(* part_000:165-179: a missing button is logged and the code goes on to
   the green-box probe, which logs a second line. *)
SubmitPart000(s) ==
    /\ version = "part_000"
    /\ pc[s] = "submit"
    /\ \/ \E found \in BOOLEAN, green \in BOOLEAN :
            LET p1 == IF found THEN pending
                      ELSE appendJsonLine(pending, ROCKETOUR_LOG, s,
                               ErrorEntry("No submit button found", NoPayload))
            IN /\ pending' = appendJsonLine(p1, ROCKETOUR_LOG, s,
                                            Part000Outcome(green, payload[s]))
               /\ pc' = [pc EXCEPT ![s] = "close"]
               /\ trace' = [trace EXCEPT ![s] = @ \o Waited(found, green)]
               /\ UNCHANGED <<browser, faults>>
       \/ Catch(s, "click_failed", <<"click">>)
    /\ UNCHANGED <<version, budget, fill, payload, relay, ack, files, diag>>

(* await browser.close(), the last statement of the try block. *)
Close(s) ==
    /\ pc[s] = "close"
    /\ \/ /\ browser' = [browser EXCEPT ![s] = "closed"]
          /\ pc' = [pc EXCEPT ![s] = "done"]
          /\ trace' = [trace EXCEPT ![s] = @ \o <<"close">>]
          /\ UNCHANGED <<pending, faults>>
       \/ Catch(s, "close_failed", <<"close">>)
    /\ UNCHANGED <<version, budget, fill, payload, relay, ack, files, diag>>

----------------------------------------------------------------------------
(* fs.appendFile's callback: the line is in the file, or err is set and
   the line is only reported on the console. *)
WriteCompletes(l) ==
    /\ l \in pending
    /\ pending' = pending \ {l}
    /\ files' = [files EXCEPT ![l.file] = Append(@, l)]
    /\ UNCHANGED <<version, budget, fill, pc, payload, relay, ack, browser, trace, diag, faults>>

(* A write failure that is raised to the handler of the submission: the
   handler stops and answers with an error. *)
WriteFailsRaises(l) ==
    /\ l \in pending
    /\ faults < budget
    /\ faults' = faults + 1
    /\ pending' = pending \ {l}
    /\ diag' = diag \cup {l}
    /\ pc' = [pc EXCEPT ![l.of] = "done"]
    /\ ack' = [ack EXCEPT ![l.of] = [status |-> 500, ok |-> FALSE]]
    /\ UNCHANGED <<version, budget, fill, payload, relay, browser, trace, files>>

WriteFails(l) ==
    /\ l \in pending
    /\ faults < budget
    /\ faults' = faults + 1
    /\ pending' = pending \ {l}
    /\ diag' = diag \cup {l}
    /\ UNCHANGED <<version, budget, fill, pc, payload, relay, ack, browser, trace, files>>

Next ==
    \/ \E s \in Subs : Receive(s)
    \/ \E s \in Subs : RelaySettles(s)
    \/ \E s \in Subs : RelayTimeout(s)
    \/ \E s \in Subs : Launch(s)
    \/ \E s \in Subs : Navigate(s)
    \/ \E s \in Subs : FillFields(s)
    \/ \E s \in Subs : SubmitIndex(s)
    \/ \E s \in Subs : SubmitPart000(s)
    \/ \E s \in Subs : Close(s)
    \/ \E l \in pending : WriteCompletes(l)
    \/ \E l \in pending : WriteFails(l)

Spec == Init /\ [][Next]_vars

(* The intake coordinator alone: the handler up to its reply, the
   background task not yet running, and one failure more than in Spec, so
   that a failed relay can meet a failed write of the line that reports it. *)
IntakeInit ==
    /\ version \in Versions
    /\ Pipeline0
    /\ budget = MaxFaults + 1
    /\ fill = NoFill

IntakeNext ==
    \/ \E s \in Subs : Receive(s)
    \/ \E s \in Subs : RelaySettles(s)
    \/ \E s \in Subs : RelayTimeout(s)
    \/ \E l \in pending : WriteCompletes(l)
    \/ \E l \in pending : WriteFails(l)

IntakeSpec == IntakeInit /\ [][IntakeNext]_vars

-----------------------------------------------------------------------------
(* The replicator's form filling, field by field.  A text is a sequence of
   tokens (characters, and one token for each fixed phrase); the empty text
   is the empty string, which, like an absent property, is falsy. *)
MaxTours == 2
TourNames == {"A", "B"}
TourLists == UNION {[1..n -> TourNames] : n \in 0..MaxTours}

Fields == <<"affiliateId", "city", "leadName", "leadPhone", "notes">>
AFFILIATE_ID == <<"2", "4", "2">>
CITY == <<"Roma">>                          \* the city name, in Hebrew
PARTICIPANTS == <<"Mispar mishtatfim: ">>   \* "number of participants: ", in Hebrew
SENT_BY_FORM == <<"Nishlach ba-tofes">>     \* "sent by form", in Hebrew
SENT_BY_WHATSAPP == <<"Nishlach ba-WhatsApp">>  \* "sent by WhatsApp", in Hebrew

(* Array.prototype.join *)
RECURSIVE Join(_, _)
Join(parts, sep) ==
    IF parts = <<>> THEN <<>>
    ELSE IF Len(parts) = 1 THEN parts[1]
    ELSE parts[1] \o sep \o Join(Tail(parts), sep)

(* The values of payload.tours: absent, an array of names, or a string. *)
NoTours == [kind |-> "absent", items |-> <<>>, text |-> <<>>]
TourArray(L) == [kind |-> "list", items |-> [i \in 1..Len(L) |-> <<L[i]>>], text |-> <<>>]
TourString(txt) == [kind |-> "string", items |-> <<>>, text |-> txt]

(* JavaScript truthiness: an array is truthy even when empty, a string
   only when not empty. *)
Truthy(t) ==
    CASE t.kind = "absent" -> FALSE
      [] t.kind = "list" -> TRUE
      [] t.kind = "string" -> t.text # <<>>

(* A tour list joined without the space. *)
ToursTextNoSpace(t) ==
    IF t.kind = "list" THEN Join(t.items, <<",">>) ELSE t.text

(* Array.isArray(tours) ? tours.join(", ") : String(tours) *)
ToursText(t) ==
    IF t.kind = "list" THEN Join(t.items, <<",", " ">>) ELSE t.text

Marker(v, src) ==
    IF v = "index.js" /\ src = "whatsapp" THEN SENT_BY_WHATSAPP ELSE SENT_BY_FORM

NotesParts(v, data, src) ==
    (IF data.npart # <<>> THEN <<PARTICIPANTS \o data.npart>> ELSE <<>>)
    \o (IF data.participants # <<>> THEN <<PARTICIPANTS \o data.participants>> ELSE <<>>)
    \o (IF data.tour_details # <<>> THEN <<data.tour_details>> ELSE <<>>)
    \o (IF Truthy(data.tours) THEN <<ToursText(data.tours)>> ELSE <<>>)
    \o <<Marker(v, src)>>

FilterBoolean(parts) == SelectSeq(parts, LAMBDA p : p # <<>>)

NotesOf(v, data, src) == Join(FilterBoolean(NotesParts(v, data, src)), <<"\n">>)

(* What is typed into each field. *)
FieldValue(v, f, data, src) ==
    CASE f = "affiliateId" -> AFFILIATE_ID
      [] f = "city" -> CITY
      [] f = "leadName" -> data.name
      [] f = "leadPhone" -> data.phone
      [] f = "notes" -> NotesOf(v, data, src)

(* page.type: types into the element the selector finds, and throws when
   it finds none. *)
TypeInto(att, page, f, txt) ==
    IF f \in page
    THEN [att EXCEPT !.typed = Append(@, <<f, txt>>)]
    ELSE [att EXCEPT !.error = TRUE]

(* The same submission with its tour list given as one string, the names
   separated by sep. *)
Twin(data, sep) ==
    IF data.tours.kind = "list"
    THEN [data EXCEPT !.tours = TourString(Join(data.tours.items, sep))]
    ELSE data

Delims == {<<",", " ">>, <<",">>}
Attempts == 1..2
NewAttempt == [step |-> 1, probed |-> <<>>, typed |-> <<>>, error |-> FALSE, fault |-> FALSE]

FillData ==
    {[name |-> <<"Dana">>, phone |-> ph, npart |-> np, participants |-> <<>>,
      tour_details |-> td, tours |-> tr] :
        ph \in {<<"0", "5">>}, np \in {<<>>, <<"2">>}, td \in {<<>>, <<"D">>},
        tr \in {NoTours} \cup {TourArray(L) : L \in TourLists}}

(* Two replication attempts on one partner page: attempt 1 for a
   submission, attempt 2 for the same submission with its tours given as a
   string.  part_000 replicates Form submissions only. *)
FillInit ==
    /\ version \in Versions
    /\ Pipeline0
    /\ budget = MaxFaults
    /\ \E page \in SUBSET Range(Fields), src \in {"form", "whatsapp"},
          data \in FillData, sep \in Delims :
          /\ version = "part_000" => src = "form"
          /\ fill = [page |-> page, src |-> src, sep |-> sep,
                     data |-> <<data, Twin(data, sep)>>,
                     att |-> [a \in Attempts |-> NewAttempt]]

Pipeline == <<version, pc, payload, relay, ack, browser, trace, pending, files, diag, faults, budget>>

(* A fill that types without probing the selector first. *)
FillFieldUnguarded(a) ==
    LET att == fill.att[a]
        f == Fields[att.step]
    IN  /\ att.step <= Len(Fields)
        /\ ~att.error
        /\ fill' = [fill EXCEPT !.att[a] =
               [TypeInto(att, fill.page, f, FieldValue(version, f, fill.data[a], fill.src))
                  EXCEPT !.step = IF f \in fill.page THEN @ + 1 ELSE @]]
        /\ UNCHANGED Pipeline

(* if (await page.$(sel)) await page.type(sel, value) *)
FillField(a) ==
    LET att == fill.att[a]
        f == Fields[att.step]
        probed == [att EXCEPT !.probed = Append(@, f), !.step = @ + 1]
    IN  /\ att.step <= Len(Fields)
        /\ ~att.error
        /\ fill' = [fill EXCEPT !.att[a] =
               IF f \in fill.page
               THEN TypeInto(probed, fill.page, f, FieldValue(version, f, fill.data[a], fill.src))
               ELSE probed]
        /\ UNCHANGED Pipeline

(* A puppeteer call rejects (the page crashed, the browser went away): the
   attempt goes to its catch block. *)
FillFault(a) ==
    /\ fill.att[a].step <= Len(Fields)
    /\ ~fill.att[a].error
    /\ fill' = [fill EXCEPT !.att[a].error = TRUE, !.att[a].fault = TRUE]
    /\ UNCHANGED Pipeline

FillNext ==
    \/ \E a \in Attempts : FillField(a)
    \/ \E a \in Attempts : FillFault(a)

FillSpec == FillInit /\ [][FillNext]_vars

(* Once a promise has settled, the continuation waiting on it runs, and a
   timer that was set fires.  Nothing obliges the remote store to answer,
   and a store that stays silent is one of the run's MaxFaults failures:
   only when those are used up is the store bound to answer. *)
Fairness ==
    \A s \in Subs :
        /\ WF_vars(RelayTimeout(s))
        /\ WF_vars(faults >= budget /\ RelaySettles(s))
        /\ WF_vars(Launch(s))
        /\ WF_vars(Navigate(s))
        /\ WF_vars(FillFields(s))
        /\ WF_vars(SubmitIndex(s))
        /\ WF_vars(SubmitPart000(s))
        /\ WF_vars(Close(s))

FairSpec == Spec /\ Fairness

----------------------------------------------------------------------------
(* Vocabulary of the properties. *)
Accepted(s) == pc[s] # "idle"
Did(s, e) == e \in Range(trace[s])
Pos(s, e) == CHOOSE i \in 1..Len(trace[s]) : trace[s][i] = e
Once(s, e) == Cardinality({i \in 1..Len(trace[s]) : trace[s][i] = e}) <= 1
\* e happened, once, and before every f that happened
Precedes(s, e, f) == Did(s, f) => Did(s, e) /\ Once(s, e) /\ Pos(s, e) < Pos(s, f)

LinesOf(f, s) == {l \in Issued(pending, s) : l.file = f}
InFile(f, s) == {i \in 1..Len(files[f]) : files[f][i].of = s}
Settled == {"ok", "nonok", "exception", "timeout"}
AckOK == [status |-> 200, ok |-> TRUE]
WritesSettled == pending = {}
AllDone == \A s \in Subs : pc[s] = "done"

(* C1: within one submission the general-log append (and the WhatsApp-log
   append, when the source is whatsapp) comes before the relay call, the
   relay's result before the reply, and the reply before the background
   replication starts. *)
C1_StepOrder ==
    \A s \in Subs :
        /\ Precedes(s, "append_general", "relay_call")
        /\ Did(s, "append_whatsapp") => Pos(s, "append_whatsapp") < Pos(s, "relay_call")
        /\ (Did(s, "relay_call") /\ ToLower(payload[s].source) = "whatsapp")
              => Did(s, "append_whatsapp")
        /\ Precedes(s, "relay_call", "relay_result")
        /\ Precedes(s, "relay_result", "reply")
        /\ Precedes(s, "reply", "replication_start")
        /\ Precedes(s, "replication_start", "launch")
        /\ relay[s] # "none" => LinesOf(GENERAL_LOG, s) # {}
        /\ ack[s] # NoAck => relay[s] \in Settled
        /\ (browser[s] # "none" \/ LinesOf(ROCKETOUR_LOG, s) # {}) => ack[s] # NoAck

C1_Witness ==
    \E s, t \in Subs :
        /\ Did(s, "append_whatsapp") /\ Did(s, "reply")
        /\ Did(t, "replication_start") /\ Did(t, "launch") /\ relay[t] = "nonok"

(* C2: the reply is HTTP 200 {ok: true} whatever the relay did: once the
   relay has settled (2xx, non-2xx, exception, timeout) the caller has that
   reply, and no other reply is ever sent. *)
C2_AckUnconditional ==
    \A s \in Subs :
        /\ relay[s] \in Settled => ack[s] = AckOK
        /\ ack[s] \in {NoAck, AckOK}

C2_Witness ==
    \E s, t \in Subs :
        /\ relay[s] \in {"nonok", "exception", "timeout"} /\ ack[s] = AckOK
        /\ relay[t] = "ok" /\ ack[t] = AckOK

(* C3: the replicator starts if and only if the handler's source is "form";
   for a whatsapp submission (any letter case) no browser is launched and
   nothing is written to the replicator's log. *)
C3_ReplicatorIffForm ==
    \A s \in Subs :
        /\ Did(s, "replication_start") => ToLower(Source(s)) = "form"
        /\ (Did(s, "reply") /\ ToLower(Source(s)) = "form") => Did(s, "replication_start")
        /\ ToLower(payload[s].source) = "whatsapp"
              => browser[s] = "none" /\ LinesOf(ROCKETOUR_LOG, s) = {}

IsWa(s) == ToLower(payload[s].source) = "whatsapp"
Landed(f, s) == {l \in LinesOf(f, s) : l \notin pending /\ l \notin diag}

(* C4 as claimed: every submission leaves exactly one entry in the general
   log, so that N finished submissions leave N entries. *)
C4_ExactlyOneEntry ==
    (AllDone /\ WritesSettled) =>
        /\ \A s \in Subs : Cardinality(InFile(GENERAL_LOG, s)) = 1
        /\ Len(files[GENERAL_LOG]) = MaxSubs

(* C4, amended: every submission issues exactly one append to the general
   log, carrying its payload unchanged; the log holds that entry once, from
   the moment the write completes without error, and never holds it if the
   write fails; the log's length is the number of general appends that
   completed without error. *)
C4_OneAppendPerSubmission ==
    /\ \A s \in Subs :
        /\ Cardinality(LinesOf(GENERAL_LOG, s)) = (IF Accepted(s) THEN 1 ELSE 0)
        /\ \A l \in LinesOf(GENERAL_LOG, s) : l.payload = payload[s]
        /\ Cardinality(InFile(GENERAL_LOG, s)) = Cardinality(Landed(GENERAL_LOG, s))
    /\ Len(files[GENERAL_LOG])
          = Cardinality({s \in Subs : Landed(GENERAL_LOG, s) # {}})

C4_Witness ==
    /\ AllDone /\ WritesSettled
    /\ \E s, t \in Subs :
        /\ payload[s].source = "Form"
        /\ Cardinality(InFile(GENERAL_LOG, s)) = 1
        /\ InFile(GENERAL_LOG, t) = {} /\ LinesOf(GENERAL_LOG, t) \subseteq diag

(* C5 as claimed: a whatsapp submission (any letter case) leaves exactly
   one entry in the WhatsApp log, any other submission none. *)
C5_ExactlyOneWhatsAppEntry ==
    (AllDone /\ WritesSettled) =>
        \A s \in Subs :
            Cardinality(InFile(WHATSAPP_LOG, s)) = (IF IsWa(s) THEN 1 ELSE 0)

(* C5, amended: a submission whose source is whatsapp in any letter case
   issues exactly one append to the WhatsApp log besides its general-log
   append, and any other submission none; the WhatsApp log holds that entry
   once when the write completed without error, and not at all if the
   write failed. *)
C5_OneWhatsAppAppend ==
    \A s \in Subs :
        /\ Cardinality(LinesOf(WHATSAPP_LOG, s))
              = (IF Accepted(s) /\ IsWa(s) THEN 1 ELSE 0)
        /\ \A l \in LinesOf(WHATSAPP_LOG, s) :
              l.payload = payload[s] /\ LinesOf(GENERAL_LOG, s) # {}
        /\ Cardinality(InFile(WHATSAPP_LOG, s)) = Cardinality(Landed(WHATSAPP_LOG, s))

C5_Witness ==
    /\ AllDone /\ WritesSettled
    /\ \E s, t \in Subs :
        /\ payload[s].source = "WhatsApp"
        /\ Cardinality(InFile(WHATSAPP_LOG, s)) = 1
        /\ payload[t].source = "other"
        /\ LinesOf(WHATSAPP_LOG, t) = {}

(* C6: the submission's record is in the general log (and in the WhatsApp
   log, for a whatsapp submission) before the relay call is issued, so it
   is there at every point from the relay call onward. *)
C6_LoggedBeforeRelay ==
    \A s \in Subs :
        relay[s] # "none" =>
            /\ Cardinality(InFile(GENERAL_LOG, s)) = 1
            /\ IsWa(s) => Cardinality(InFile(WHATSAPP_LOG, s)) = 1

(* C7: the relay is awaited with a bound, so a submission whose relay call
   is outstanding is eventually acknowledged even if the store never
   answers. *)
C7_EventuallyAcknowledged ==
    \A s \in Subs : (relay[s] = "inflight") ~> (ack[s] = AckOK)

(* C8: a replication attempt that has ended has appended exactly one
   record to the replicator's log, and a running one at most one. *)
C8_ExactlyOneOutcome ==
    \A s \in Subs :
        Did(s, "replication_start") =>
            /\ Cardinality(LinesOf(ROCKETOUR_LOG, s)) <= 1
            /\ pc[s] = "done" => Cardinality(LinesOf(ROCKETOUR_LOG, s)) = 1

(* C9: no ended replication attempt leaves its browser session open. *)
C9_SessionReleased ==
    \A s \in Subs : pc[s] = "done" => browser[s] # "open"

(* C10: when no submit control is found the submit is not triggered, the
   replicator's log gets a no_submit_button_found error entry, and no
   status (success or inconclusive) entry is written for the attempt. *)
C10_NoSubmitControl ==
    \A s \in Subs :
        Did(s, "no_submit_control") =>
            /\ ~Did(s, "click")
            /\ \E l \in LinesOf(ROCKETOUR_LOG, s) :
                  l.key = "error" /\ l.value = "no_submit_button_found"
            /\ \A l \in LinesOf(ROCKETOUR_LOG, s) : l.key # "status"

HasLine(s, key, value) ==
    \E l \in LinesOf(ROCKETOUR_LOG, s) : l.key = key /\ l.value = value
ValueLogged(s, value) ==
    \E l \in LinesOf(ROCKETOUR_LOG, s) : l.value = value

(* C11 as claimed: after the submit control was triggered, an indicator
   that does not appear within the bound is recorded as the status
   submitted_no_indicator, one that appears as the status success_detected,
   and never both. *)
C11_IndicatorOutcome ==
    \A s \in Subs :
        /\ Did(s, "no_green") => HasLine(s, "status", "submitted_no_indicator")
        /\ Did(s, "green") => HasLine(s, "status", "success_detected")
        /\ ~(ValueLogged(s, "submitted_no_indicator") /\ ValueLogged(s, "success_detected"))

(* C11, amended: the two outcomes are status entries, never error entries,
   and exclude each other; index.js names them submitted_no_green_box and
   success_detected, part_000 names them unknown_state_no_green_box and
   success. *)
C11_GreenBoxOutcome ==
    \A s \in Subs :
        LET absent == IF version = "index.js" THEN "submitted_no_green_box"
                      ELSE "unknown_state_no_green_box"
            seen == IF version = "index.js" THEN "success_detected" ELSE "success"
        IN /\ Did(s, "no_green") => HasLine(s, "status", absent)
           /\ Did(s, "green") => HasLine(s, "status", seen)
           /\ ~HasLine(s, "error", absent) /\ ~HasLine(s, "error", seen)
           /\ ~(ValueLogged(s, absent) /\ ValueLogged(s, seen))
           /\ Did(s, "click") /\ ValueLogged(s, seen) => Did(s, "green")

C11_Witness ==
    \E s, t \in Subs :
        /\ Did(s, "no_green") /\ pc[s] = "done"
        /\ Did(t, "green") /\ pc[t] = "done"

RelayFailed(s) == relay[s] \in {"nonok", "exception", "timeout"}

(* C12 as claimed: a relay that ends in a non-success status or an
   exception leaves exactly one entry in the relay-failure log, a relay
   that succeeds none, and the submission is acknowledged in every case. *)
C12_ExactlyOneFailEntry ==
    WritesSettled =>
        \A s \in Subs :
            relay[s] \in Settled =>
                /\ Cardinality(InFile(SHEET_FAIL_LOG, s)) = (IF RelayFailed(s) THEN 1 ELSE 0)
                /\ ack[s] = AckOK

(* C12, amended: a relay that ends in a non-success status or a transport
   exception issues exactly one append to the relay-failure log, carrying
   the status or the exception message and the payload; the log holds that
   entry once, once its write has completed without error, and not at all
   if the write fails; a relay that succeeds issues none; in all three
   cases the submission is acknowledged. *)
C12_OneFailAppend ==
    \A s \in Subs :
        /\ Cardinality(LinesOf(SHEET_FAIL_LOG, s)) = (IF RelayFailed(s) THEN 1 ELSE 0)
        /\ \A l \in LinesOf(SHEET_FAIL_LOG, s) :
              /\ l.payload = payload[s]
              /\ relay[s] = "nonok" => l.key = "status" /\ l.value = "500"
              /\ relay[s] # "nonok" => l.key = "error" /\ l.value = relay[s]
        /\ Cardinality(InFile(SHEET_FAIL_LOG, s)) = Cardinality(Landed(SHEET_FAIL_LOG, s))
        /\ relay[s] \in Settled => ack[s] = AckOK /\ Did(s, "reply")

C12_Witness ==
    /\ WritesSettled
    /\ \E s, t \in Subs :
        /\ relay[s] = "nonok" /\ Cardinality(InFile(SHEET_FAIL_LOG, s)) = 1
        /\ relay[t] = "ok" /\ LinesOf(SHEET_FAIL_LOG, t) = {}
        /\ ack[s] = AckOK /\ ack[t] = AckOK

FailedWrites(s) == {l \in diag : l.of = s}

(* C13: a failed write of a log line is reported on the diagnostic channel
   only and is never raised to the caller: a submission one of whose log
   lines could not be written has still had its relay call issued, the
   relay can still return, no answer other than the success acknowledgement
   is ever sent, the acknowledgement is sent as soon as the relay has
   ended, and a Form submission that was acknowledged has had its
   replication scheduled. *)
C13_LogFailureNotRaised ==
    \A s \in Subs :
        FailedWrites(s) # {} =>
            /\ Did(s, "relay_call") /\ relay[s] # "none"
            /\ relay[s] = "inflight" => ENABLED AfterRelay(s, "ok")
            /\ ack[s] \in {NoAck, AckOK}
            /\ relay[s] \in Settled => ack[s] = AckOK /\ Did(s, "reply")
            /\ ack[s] = AckOK /\ ToLower(Source(s)) = "form" => Did(s, "replication_start")

C13_Witness ==
    \E s \in Subs :
        /\ \E l \in FailedWrites(s) : l.file = GENERAL_LOG
        /\ RelayFailed(s)
        /\ ToLower(Source(s)) = "form"
        /\ ack[s] = AckOK
        /\ Did(s, "replication_start")

SubmitReached(a) == fill.att[a].step = Len(Fields) + 1 /\ ~fill.att[a].error
Present(f) == f \in fill.page
TypedFields(a) == [i \in 1..Len(fill.att[a].typed) |-> fill.att[a].typed[i][1]]

(* C15: an absent field is skipped without an error: an attempt fails only
   when a browser call fails, never because a field is absent; the fields
   are probed in order, absent or not; exactly the present ones among them
   are filled, each with its value; and while no browser call fails the
   next field can be probed until the submit step is reached. *)
C15_AbsentFieldSkipped ==
    \A a \in Attempts :
        LET att == fill.att[a] IN
        /\ att.error => att.fault
        /\ att.probed = SubSeq(Fields, 1, Len(att.probed))
        /\ Len(att.probed) \in {att.step - 1, att.step}
        /\ ~att.error => Len(att.probed) = att.step - 1
        /\ TypedFields(a) = SelectSeq(att.probed, Present)
        /\ \A i \in 1..Len(att.typed) :
              att.typed[i][2] = FieldValue(version, att.typed[i][1], fill.data[a], fill.src)
        /\ ~att.error => SubmitReached(a) \/ ENABLED FillField(a)
        /\ SubmitReached(a) => att.probed = Fields

C15_Witness ==
    \E a \in Attempts :
        /\ SubmitReached(a)
        /\ ~Present("city") /\ ~Present("leadPhone")
        /\ TypedFields(a) = <<"affiliateId", "leadName", "notes">>

HasNotes(a) == \E i \in 1..Len(fill.att[a].typed) : fill.att[a].typed[i][1] = "notes"
NotesTyped(a) ==
    LET typed == fill.att[a].typed
    IN  typed[CHOOSE i \in 1..Len(typed) : typed[i][1] = "notes"][2]
BothTyped == HasNotes(1) /\ HasNotes(2)
SeveralTours == fill.data[1].tours.kind = "list" /\ Len(fill.data[1].tours.items) >= 2

(* C16 as claimed: a submission with its tours as a list of names and the
   same submission with its tours as one delimited string get the same
   notes text, whatever the delimiter. *)
C16_SameNotes ==
    BothTyped => NotesTyped(1) = NotesTyped(2)

(* C16, amended: the two submissions get the same notes text when the
   string is the names joined by a comma and a space, the separator the
   code itself joins a list with; the string is typed as it is, never
   split, so with any other delimiter the notes of a list of two or more
   names differ from those of the string. *)
C16_SameNotesCommaSpace ==
    BothTyped =>
        /\ fill.sep = <<",", " ">> => NotesTyped(1) = NotesTyped(2)
        /\ NotesTyped(1) = NotesTyped(2) <=> (fill.sep = <<",", " ">> \/ ~SeveralTours)
        /\ NotesTyped(2) = NotesOf(version, fill.data[2], fill.src)

C16_Witness ==
    /\ BothTyped
    /\ SeveralTours
    /\ fill.sep = <<",", " ">>
    /\ fill.data[2].tours.kind = "string"
    /\ fill.data[1].npart # <<>>
    /\ NotesTyped(1) = NotesTyped(2)

Count(s, e) == Cardinality({i \in 1..Len(trace[s]) : trace[s][i] = e})

(* C17: every downstream stage is attempted once and never again: an
   accepted submission has had exactly one POST issued to the store, also
   after that POST has failed, and its replication attempt has launched
   one browser at most, opened the partner form once at most and
   triggered the submit control once at most. *)
C17_NoRetry ==
    \A s \in Subs :
        /\ Count(s, "relay_call") = (IF Accepted(s) THEN 1 ELSE 0)
        /\ Count(s, "relay_result") <= 1
        /\ Count(s, "replication_start") <= 1
        /\ Count(s, "launch") <= 1
        /\ Count(s, "goto") <= 1
        /\ Count(s, "click") <= 1

C17_Witness ==
    \E s \in Subs :
        /\ RelayFailed(s)
        /\ pc[s] = "done"
        /\ Count(s, "goto") = 1
        /\ Count(s, "click") = 1

Unrecognised(s) == Accepted(s) /\ ToLower(payload[s].source) \notin {"form", "whatsapp"}

(* C18: a submission whose source is absent or is neither form nor
   whatsapp is treated as a Form submission: its general-log entry names
   the source Form, nothing of it goes to the WhatsApp log, and once it is
   acknowledged its replication has been scheduled. *)
C18_UnrecognisedIsForm ==
    \A s \in Subs :
        Unrecognised(s) =>
            /\ \A l \in LinesOf(GENERAL_LOG, s) : ToLower(l.source) = "form"
            /\ LinesOf(WHATSAPP_LOG, s) = {}
            /\ Did(s, "reply") => Did(s, "replication_start")

(* C19: one acknowledgement per submission: the response is sent once and
   never twice on every path of the handler, it is the success
   acknowledgement, it has been sent by the time the handler has left the
   relay, and no later step, of the background replicator or of anything
   else, sends another response or changes the one sent. *)
C19_OneAcknowledgement ==
    /\ [](\A s \in Subs :
            /\ Count(s, "reply") <= 1
            /\ Did(s, "reply") <=> ack[s] = AckOK
            /\ ack[s] \in {NoAck, AckOK}
            /\ pc[s] \notin {"idle", "relay"} => Count(s, "reply") = 1)
    /\ [][\A s \in Subs :
            Did(s, "reply") => ack'[s] = ack[s] /\ Count(s, "reply")' = 1]_vars

C19_Witness ==
    \E s, t \in Subs :
        /\ s # t
        /\ pc[s] = "done" /\ Did(s, "catch") /\ relay[s] = "ok"
        /\ pc[t] = "done" /\ Did(t, "close")
        /\ Count(s, "reply") = 1 /\ Count(t, "reply") = 1
        /\ ack[s] = AckOK /\ ack[t] = AckOK

AllLines == pending \cup Written \cup diag

(* C20: submissions are independent: whatever the other submissions are
   doing, a submission whose relay call is in flight can have it answered
   and be acknowledged; and every line of every log, written for a
   submission by the handler or by its replicator, carries the payload of
   that submission. *)
C20_Independent ==
    /\ \A s \in Subs : pc[s] = "relay" => ENABLED AfterRelay(s, "ok")
    /\ \A l \in AllLines : l.payload.lead = l.of

====
